---------------------------- MODULE Spec2Model ----------------------------
(***************************************************************************)
(* Student grading application (src/sga.py): the in-memory Store           *)
(* student_data, the operations on it, the JSON backing file and the two   *)
(* menu loops.                                                             *)
(*                                                                         *)
(* A Python dict is modelled as a TLA+ function (dict equality does not    *)
(* depend on insertion order).  A grade is a Python float; the model keeps *)
(* it as an integer number of 1/Scale units, so 33.333 is 33333.  Python   *)
(* compares int and float by value, so a JSON integer loaded from the file *)
(* is kept by its value as well.  Text (raw input, JSON number literals)   *)
(* is a sequence of one-character strings.                                 *)
(***************************************************************************)
EXTENDS Integers, Sequences, FiniteSets, TLC

VARIABLES student_data, file, pc, choice, out

vars == <<student_data, file, pc, choice, out>>

(***************************************************************************)
(* Bounds and input sets                                                   *)
(***************************************************************************)
NumNames == 2

NameOf == <<"A", "B", "C", "D">>

Names == {NameOf[i] : i \in 1..NumNames}

Subjects == {"Math", "Art"}

\* Grades are kept to FracDigits decimal places.
FracDigits == 3

Scale == 10 ^ FracDigits

\* What the user may type at the "Enter grade: " prompt.
RawGrades ==
    { <<"a", "b", "c">>,
      <<"n", "a", "n">>,
      <<"-", "1">>,
      <<"0">>,
      <<" ", "3", "3", ".", "3", "3", "3">>,
      <<"1", "0", "0", ".", "5">> }

\* What the user may type at a "Enter your choice" prompt.
Choices == {"1", "2", "3", "4", "5", "6", "7", "x"}

(***************************************************************************)
(* dict                                                                    *)
(***************************************************************************)
EmptyDict == [k \in {} |-> 0]

DictSet(d, k, v) == [x \in (DOMAIN d) \cup {k} |-> IF x = k THEN v ELSE d[x]]

DictDel(d, k) == [x \in (DOMAIN d) \ {k} |-> d[x]]

(***************************************************************************)
(* Text and numbers                                                        *)
(***************************************************************************)
Digits == <<"0", "1", "2", "3", "4", "5", "6", "7", "8", "9">>

IsDigit(c) == \E i \in 1..10 : Digits[i] = c

DigitVal(c) == (CHOOSE i \in 1..10 : Digits[i] = c) - 1

AllDigits(s) == \A i \in 1..Len(s) : IsDigit(s[i])

RECURSIVE DigitsValue(_)
DigitsValue(s) ==
    IF s = <<>> THEN 0
    ELSE 10 * DigitsValue(SubSeq(s, 1, Len(s) - 1)) + DigitVal(s[Len(s)])

RECURSIVE DigitsOf(_)
DigitsOf(n) ==
    IF n < 10 THEN <<Digits[n + 1]>>
    ELSE DigitsOf(n \div 10) \o <<Digits[(n % 10) + 1]>>

RECURSIVE PadRight(_, _)
PadRight(s, n) == IF Len(s) >= n THEN s ELSE PadRight(s \o <<"0">>, n)

RECURSIVE PadLeft(_, _)
PadLeft(s, n) == IF Len(s) >= n THEN s ELSE PadLeft(<<"0">> \o s, n)

RECURSIVE StripZerosRight(_)
StripZerosRight(s) ==
    IF Len(s) > 1 /\ s[Len(s)] = "0"
    THEN StripZerosRight(SubSeq(s, 1, Len(s) - 1))
    ELSE s

RECURSIVE StripLeft(_)
StripLeft(s) ==
    IF s # <<>> /\ s[1] = " " THEN StripLeft(Tail(s)) ELSE s

RECURSIVE StripRight(_)
StripRight(s) ==
    IF s # <<>> /\ s[Len(s)] = " " THEN StripRight(SubSeq(s, 1, Len(s) - 1)) ELSE s

\* An unsigned decimal "ddd", "ddd.ddd", and when bare is allowed "ddd." and
\* ".ddd": [ok, v] with v in 1/Scale units (digits after the FracDigits-th
\* are below the model's resolution).
ParseUnsigned(s, bare) ==
    LET dots == {i \in 1..Len(s) : s[i] = "."}
        p    == IF dots = {} THEN Len(s) + 1 ELSE CHOOSE i \in dots : TRUE
        ip   == SubSeq(s, 1, p - 1)
        fp   == SubSeq(s, p + 1, Len(s))
        wellformed ==
            /\ Cardinality(dots) <= 1
            /\ AllDigits(ip) /\ AllDigits(fp)
            /\ IF bare THEN Len(ip) + Len(fp) > 0
                       ELSE Len(ip) > 0 /\ (dots # {} => Len(fp) > 0)
    IN  IF wellformed
        THEN [ok |-> TRUE,
              v  |-> Scale * DigitsValue(ip)
                       + DigitsValue(SubSeq(PadRight(fp, FracDigits), 1, FracDigits))]
        ELSE [ok |-> FALSE, v |-> 0]

\* float(raw) for raw text: surrounding whitespace is ignored, a sign is
\* optional, "nan" and "inf" are floats; anything else that is no decimal
\* number raises ValueError.
float(raw) ==
    LET s    == StripRight(StripLeft(raw))
        neg  == s # <<>> /\ s[1] = "-"
        body == IF s # <<>> /\ s[1] \in {"+", "-"} THEN Tail(s) ELSE s
        u    == ParseUnsigned(body, TRUE)
    IN  IF body = <<"n", "a", "n">> THEN [tag |-> "nan", v |-> 0]
        ELSE IF body \in {<<"i", "n", "f">>, <<"i", "n", "f", "i", "n", "i", "t", "y">>}
        THEN [tag |-> "inf", v |-> IF neg THEN -1 ELSE 1]
        ELSE IF u.ok THEN [tag |-> "num", v |-> IF neg THEN -u.v ELSE u.v]
        ELSE [tag |-> "ValueError", v |-> 0]

\* 0 <= grade <= 100 on floats: every comparison with nan is false, inf is
\* above 100 and -inf below 0.
InRange(g) == g.tag = "num" /\ 0 <= g.v /\ g.v <= 100 * Scale

\* A float written without its fractional digits.
float_repr_truncated(v) ==
    LET a == IF v < 0 THEN -v ELSE v
    IN  (IF v < 0 THEN <<"-">> ELSE <<>>) \o DigitsOf(a \div Scale) \o <<".", "0">>

\* repr() of a float, as json.dump writes it: the shortest decimal that
\* reads back as the same float, always with a fractional part ("100.0").
float_repr(v) ==
    LET a  == IF v < 0 THEN -v ELSE v
        fr == StripZerosRight(PadLeft(DigitsOf(a % Scale), FracDigits))
    IN  (IF v < 0 THEN <<"-">> ELSE <<>>) \o DigitsOf(a \div Scale) \o <<".">> \o fr

\* A JSON number literal, as json.load reads it.
json_number(s) ==
    LET neg == s # <<>> /\ s[1] = "-"
        u   == ParseUnsigned(IF neg THEN Tail(s) ELSE s, FALSE)
    IN  [ok |-> u.ok, v |-> IF neg THEN -u.v ELSE u.v]

\* round(total / count, 2): the quotient rounded to a multiple of Scale/100,
\* a tie going to the even neighbour.
Round2(total, count) ==
    LET unit == (Scale \div 100) * count
        q    == total \div unit
        r    == total % unit
        up   == 2 * r > unit \/ (2 * r = unit /\ q % 2 = 1)
    IN  (Scale \div 100) * (IF up THEN q + 1 ELSE q)

(***************************************************************************)
(* Printed output of one handler: the set of message templates printed and *)
(* the values substituted into them.                                       *)
(***************************************************************************)
NA == [na |-> TRUE, v |-> 0]

Num(v) == [na |-> FALSE, v |-> v]

NoOut ==
    [msgs |-> {}, name |-> "", subject |-> "", grade |-> 0,
     pairs |-> {}, names |-> {}, average |-> NA]

Say(m) == [NoOut EXCEPT !.msgs = {m}]

ErrorMsgs ==
    { "Error: {name} already exists.",
      "Error: {name} not found. Please add the student first.",
      "Error: Grade must be between 0 and 100.",
      "Error: Invalid grade format. Please enter a number.",
      "Error: {name} not found.",
      "Error: Student '{name}' not found.",
      "Error: Subject '{subject}' not found for student '{name}'." }

(***************************************************************************)
(* Store operations.  Each takes the Store and returns the Store after the *)
(* call (sd) and what the call printed (out).                              *)
(***************************************************************************)
add_student(sd, name) ==
    IF name \in DOMAIN sd
    THEN [sd |-> sd,
          out |-> [Say("Error: {name} already exists.") EXCEPT !.name = name]]
    ELSE [sd |-> DictSet(sd, name, EmptyDict),
          out |-> [Say("Added new student: {name}") EXCEPT !.name = name]]

\* add_grade with the range check reporting the error but not returning.
add_grade_stores_rejected(sd, name, subject, raw) ==
    LET grade == float(raw)
    IN  IF name \notin DOMAIN sd
        THEN [sd |-> sd,
              out |-> [Say("Error: {name} not found. Please add the student first.")
                          EXCEPT !.name = name]]
        ELSE IF grade.tag = "ValueError"
        THEN [sd |-> sd,
              out |-> Say("Error: Invalid grade format. Please enter a number.")]
        ELSE IF InRange(grade)
        THEN [sd |-> [sd EXCEPT ![name] = DictSet(sd[name], subject, grade.v)],
              out |-> [Say("Added grade for {name} in {subject}: {grade}")
                          EXCEPT !.name = name, !.subject = subject, !.grade = grade.v]]
        ELSE [sd |-> [sd EXCEPT ![name] = DictSet(sd[name], subject, grade.v)],
              out |-> Say("Error: Grade must be between 0 and 100.")]

\* add_grade assigning a new dict {subject: grade} to the student.
add_grade_replaces_grades(sd, name, subject, raw) ==
    LET grade == float(raw)
    IN  IF name \notin DOMAIN sd
        THEN [sd |-> sd,
              out |-> [Say("Error: {name} not found. Please add the student first.")
                          EXCEPT !.name = name]]
        ELSE IF grade.tag = "ValueError"
        THEN [sd |-> sd,
              out |-> Say("Error: Invalid grade format. Please enter a number.")]
        ELSE IF InRange(grade)
        THEN [sd |-> [sd EXCEPT ![name] = DictSet(EmptyDict, subject, grade.v)],
              out |-> [Say("Added grade for {name} in {subject}: {grade}")
                          EXCEPT !.name = name, !.subject = subject, !.grade = grade.v]]
        ELSE [sd |-> sd, out |-> Say("Error: Grade must be between 0 and 100.")]

add_grade(sd, name, subject, raw) ==
    LET grade == float(raw)
    IN  IF name \notin DOMAIN sd
        THEN [sd |-> sd,
              out |-> [Say("Error: {name} not found. Please add the student first.")
                          EXCEPT !.name = name]]
        ELSE IF grade.tag = "ValueError"
        THEN [sd |-> sd,
              out |-> Say("Error: Invalid grade format. Please enter a number.")]
        ELSE IF InRange(grade)
        THEN [sd |-> [sd EXCEPT ![name] = DictSet(sd[name], subject, grade.v)],
              out |-> [Say("Added grade for {name} in {subject}: {grade}")
                          EXCEPT !.name = name, !.subject = subject, !.grade = grade.v]]
        ELSE [sd |-> sd, out |-> Say("Error: Grade must be between 0 and 100.")]

RECURSIVE SumValues(_, _)
SumValues(d, keys) ==
    IF keys = {} THEN 0
    ELSE LET k == CHOOSE x \in keys : TRUE
         IN  d[k] + SumValues(d, keys \ {k})

calculate_average_grade(sd, name) ==
    IF name \notin DOMAIN sd \/ DOMAIN sd[name] = {}
    THEN NA
    ELSE Num(Round2(SumValues(sd[name], DOMAIN sd[name]),
                    Cardinality(DOMAIN sd[name])))

\* view_student_report without the early return for a student with no grades.
view_student_report_no_early_return(sd, name) ==
    IF name \notin DOMAIN sd
    THEN [Say("Error: {name} not found.") EXCEPT !.name = name]
    ELSE [NoOut EXCEPT !.msgs = {"--- Report for {name} ---", "  Overall Average: {average}"}
                                \cup (IF DOMAIN sd[name] = {}
                                      THEN {"No grades recorded yet."}
                                      ELSE {"  {subject}: {grade}"}),
                       !.name = name,
                       !.pairs = {<<s, sd[name][s]>> : s \in DOMAIN sd[name]},
                       !.average = calculate_average_grade(sd, name)]

view_student_report(sd, name) ==
    IF name \notin DOMAIN sd
    THEN [Say("Error: {name} not found.") EXCEPT !.name = name]
    ELSE IF DOMAIN sd[name] = {}
    THEN [NoOut EXCEPT !.msgs = {"--- Report for {name} ---", "No grades recorded yet."},
                       !.name = name]
    ELSE [NoOut EXCEPT !.msgs = {"--- Report for {name} ---", "  {subject}: {grade}",
                                 "  Overall Average: {average}"},
                       !.name = name,
                       !.pairs = {<<s, sd[name][s]>> : s \in DOMAIN sd[name]},
                       !.average = calculate_average_grade(sd, name)]

\* The loop of calculate_class_subject_average over student_data.items():
\* acc is <<total_grades, student_count>>.
RECURSIVE ClassLoop(_, _, _, _)
ClassLoop(sd, todo, subject, acc) ==
    IF todo = {} THEN acc
    ELSE LET name == CHOOSE x \in todo : TRUE
             subjects == sd[name]
         IN  ClassLoop(sd, todo \ {name}, subject,
                       IF subject \in DOMAIN subjects
                       THEN <<acc[1] + subjects[subject], acc[2] + 1>>
                       ELSE acc)

\* calculate_class_subject_average dividing by the number of all students.
calculate_class_subject_average_all_students(sd, subject) ==
    LET acc == ClassLoop(sd, DOMAIN sd, subject, <<0, 0>>)
    IN  IF acc[2] = 0 THEN NA ELSE Num(Round2(acc[1], Cardinality(DOMAIN sd)))

calculate_class_subject_average(sd, subject) ==
    LET acc == ClassLoop(sd, DOMAIN sd, subject, <<0, 0>>)
    IN  IF acc[2] = 0 THEN NA ELSE Num(Round2(acc[1], acc[2]))

\* delete_student clearing the student's grades instead of removing the student.
delete_student_keeps_name(sd, name) ==
    IF name \in DOMAIN sd
    THEN [sd |-> [sd EXCEPT ![name] = EmptyDict],
          out |-> [Say("Successfully deleted student: {name}.") EXCEPT !.name = name]]
    ELSE [sd |-> sd,
          out |-> [Say("Error: Student '{name}' not found.") EXCEPT !.name = name]]

delete_student(sd, name) ==
    IF name \in DOMAIN sd
    THEN [sd |-> DictDel(sd, name),
          out |-> [Say("Successfully deleted student: {name}.") EXCEPT !.name = name]]
    ELSE [sd |-> sd,
          out |-> [Say("Error: Student '{name}' not found.") EXCEPT !.name = name]]

\* delete_grade removing the student as well when the last grade goes.
delete_grade_drops_empty_student(sd, name, subject) ==
    IF name \notin DOMAIN sd
    THEN [sd |-> sd,
          out |-> [Say("Error: Student '{name}' not found.") EXCEPT !.name = name]]
    ELSE IF subject \in DOMAIN sd[name]
    THEN [sd |-> IF DOMAIN sd[name] = {subject}
                 THEN DictDel(sd, name)
                 ELSE [sd EXCEPT ![name] = DictDel(sd[name], subject)],
          out |-> [Say("Successfully deleted grade for {name} in {subject}.")
                      EXCEPT !.name = name, !.subject = subject]]
    ELSE [sd |-> sd,
          out |-> [Say("Error: Subject '{subject}' not found for student '{name}'.")
                      EXCEPT !.name = name, !.subject = subject]]

delete_grade(sd, name, subject) ==
    IF name \notin DOMAIN sd
    THEN [sd |-> sd,
          out |-> [Say("Error: Student '{name}' not found.") EXCEPT !.name = name]]
    ELSE IF subject \in DOMAIN sd[name]
    THEN [sd |-> [sd EXCEPT ![name] = DictDel(sd[name], subject)],
          out |-> [Say("Successfully deleted grade for {name} in {subject}.")
                      EXCEPT !.name = name, !.subject = subject]]
    ELSE [sd |-> sd,
          out |-> [Say("Error: Subject '{subject}' not found for student '{name}'.")
                      EXCEPT !.name = name, !.subject = subject]]

(***************************************************************************)
(* Persistence.  The backing file is absent, holds bytes that are no text  *)
(* in the platform's encoding (UTF-8), holds text that is no JSON (an      *)
(* empty file included), or holds a JSON object of objects of numbers:     *)
(* doc maps a name to a map from a subject to a number literal.            *)
(***************************************************************************)
AbsentFile == [kind |-> "absent", doc |-> EmptyDict]

UndecodableFile == [kind |-> "undecodable", doc |-> EmptyDict]

MalformedFile == [kind |-> "malformed", doc |-> EmptyDict]

JsonFile(doc) == [kind |-> "json", doc |-> doc]

\* The backing files the program may find at startup; a JSON file may have
\* been written by an earlier run or by hand.
Files ==
    { AbsentFile, UndecodableFile, MalformedFile,
      JsonFile(NameOf[1] :> ("Math" :> <<"1", "5", "0">>
                             @@ "Art" :> <<"1", "0", "0", ".", "0">>)) }

json_dump(sd) ==
    [n \in DOMAIN sd |-> [s \in DOMAIN sd[n] |-> float_repr(sd[n][s])]]

\* json.load(f): f.read() decodes the bytes (UnicodeDecodeError), then the
\* text is parsed (JSONDecodeError).
json_load(f) ==
    IF f.kind = "undecodable" THEN [raised |-> "UnicodeDecodeError", data |-> EmptyDict]
    ELSE IF f.kind = "malformed"
            \/ \E n \in DOMAIN f.doc : \E s \in DOMAIN f.doc[n] :
                   ~json_number(f.doc[n][s]).ok
    THEN [raised |-> "JSONDecodeError", data |-> EmptyDict]
    ELSE [raised |-> "",
          data |-> [n \in DOMAIN f.doc |->
                      [s \in DOMAIN f.doc[n] |-> json_number(f.doc[n][s]).v]]]

\* load_data(): only json.JSONDecodeError is caught; any other exception
\* leaves load_data and main_menu (raised names it).
load_data(sd, f) ==
    IF f.kind # "absent"
    THEN LET r == json_load(f)
         IN  IF r.raised = ""
             THEN [sd |-> r.data, raised |-> "",
                   out |-> Say("Data loaded successfully from {FILE_NAME}.")]
             ELSE IF r.raised = "JSONDecodeError"
             THEN [sd |-> EmptyDict, raised |-> "",
                   out |-> Say("Warning: Could not decode data file. Starting with empty records.")]
             ELSE [sd |-> sd, raised |-> r.raised, out |-> NoOut]
    ELSE [sd |-> sd, raised |-> "",
          out |-> Say("No existing data file ({FILE_NAME}) found. Starting with empty records.")]

save_data(sd) == JsonFile(json_dump(sd))

(***************************************************************************)
(* The program: main_menu() loads the file and loops on the main prompt;   *)
(* delete_menu() loops on its own prompt.  pc is "start" before load_data, *)
(* "main" or "delete" at the prompt of that menu, "exited" after           *)
(* sys.exit() and "crashed" after an uncaught exception.                   *)
(***************************************************************************)
Init ==
    /\ student_data = EmptyDict
    /\ file \in Files
    /\ pc = "start"
    /\ choice = ""
    /\ out = NoOut

LoadData ==
    /\ pc = "start"
    /\ LET r == load_data(student_data, file)
       IN  /\ student_data' = r.sd
           /\ out' = r.out
           /\ pc' = IF r.raised = "" THEN "main" ELSE "crashed"
    /\ UNCHANGED <<file, choice>>

MainChoice1(name) ==
    /\ pc = "main"
    /\ choice' = "1"
    /\ LET r == add_student(student_data, name)
       IN  student_data' = r.sd /\ out' = r.out
    /\ UNCHANGED <<file, pc>>

MainChoice2(name, subject, grade) ==
    /\ pc = "main"
    /\ choice' = "2"
    /\ LET r == add_grade(student_data, name, subject, grade)
       IN  student_data' = r.sd /\ out' = r.out
    /\ UNCHANGED <<file, pc>>

MainChoice3(name) ==
    /\ pc = "main"
    /\ choice' = "3"
    /\ out' = view_student_report(student_data, name)
    /\ UNCHANGED <<student_data, file, pc>>

MainChoice4(subject) ==
    /\ pc = "main"
    /\ choice' = "4"
    /\ LET average == calculate_class_subject_average(student_data, subject)
       IN  out' = IF ~average.na
                  THEN [Say("Class average for {subject}: {average}")
                           EXCEPT !.subject = subject, !.average = average]
                  ELSE [Say("No grades found for subject: {subject}")
                           EXCEPT !.subject = subject]
    /\ UNCHANGED <<student_data, file, pc>>

MainChoice5 ==
    /\ pc = "main"
    /\ choice' = "5"
    /\ out' = [NoOut EXCEPT
                 !.msgs = {"Current Students:"}
                          \cup (IF DOMAIN student_data = {}
                                THEN {"(No students recorded)"} ELSE {"- {name}"}),
                 !.names = DOMAIN student_data]
    /\ UNCHANGED <<student_data, file, pc>>

MainChoice6 ==
    /\ pc = "main"
    /\ choice' = "6"
    /\ pc' = "delete"
    /\ out' = NoOut
    /\ UNCHANGED <<student_data, file>>

MainChoice7 ==
    /\ pc = "main"
    /\ choice' = "7"
    /\ file' = save_data(student_data)
    /\ out' = [NoOut EXCEPT !.msgs = {"Data saved successfully to {FILE_NAME}.",
                                      "Exiting application. Goodbye!"}]
    /\ pc' = "exited"
    /\ UNCHANGED student_data

MainInvalid(c) ==
    /\ pc = "main"
    /\ c \notin {"1", "2", "3", "4", "5", "6", "7"}
    /\ choice' = c
    /\ out' = Say("Invalid choice. Please enter a number between 1 and 7.")
    /\ UNCHANGED <<student_data, file, pc>>

DeleteChoice1(name) ==
    /\ pc = "delete"
    /\ choice' = "1"
    /\ LET r == delete_student(student_data, name)
       IN  student_data' = r.sd /\ out' = r.out
    /\ UNCHANGED <<file, pc>>

DeleteChoice2(name, subject) ==
    /\ pc = "delete"
    /\ choice' = "2"
    /\ LET r == delete_grade(student_data, name, subject)
       IN  student_data' = r.sd /\ out' = r.out
    /\ UNCHANGED <<file, pc>>

\* Choice 3 of the delete menu ending the process instead of returning.
DeleteChoice3_exits ==
    /\ pc = "delete"
    /\ choice' = "3"
    /\ pc' = "exited"
    /\ out' = Say("Exiting application. Goodbye!")
    /\ UNCHANGED <<student_data, file>>

DeleteChoice3 ==
    /\ pc = "delete"
    /\ choice' = "3"
    /\ pc' = "main"
    /\ out' = NoOut
    /\ UNCHANGED <<student_data, file>>

DeleteInvalid(c) ==
    /\ pc = "delete"
    /\ c \notin {"1", "2", "3"}
    /\ choice' = c
    /\ out' = Say("Invalid choice. Please enter a number between 1 and 3.")
    /\ UNCHANGED <<student_data, file, pc>>

Next ==
    \/ LoadData
    \/ \E name \in Names : MainChoice1(name)
    \/ \E name \in Names, subject \in Subjects, grade \in RawGrades :
           MainChoice2(name, subject, grade)
    \/ \E name \in Names : MainChoice3(name)
    \/ \E subject \in Subjects : MainChoice4(subject)
    \/ MainChoice5
    \/ MainChoice6
    \/ MainChoice7
    \/ \E c \in Choices : MainInvalid(c)
    \/ \E name \in Names : DeleteChoice1(name)
    \/ \E name \in Names, subject \in Subjects : DeleteChoice2(name, subject)
    \/ DeleteChoice3
    \/ \E c \in Choices : DeleteInvalid(c)

Spec == Init /\ [][Next]_vars

(***************************************************************************)
(* Properties                                                              *)
(***************************************************************************)
Printed(m) == m \in out.msgs

Running == pc \in {"main", "delete"}

HasGrades(sd) == \E n \in DOMAIN sd : DOMAIN sd[n] # {}

\* The float each raw grade stands for.
GradeOf == [raw \in RawGrades |-> float(raw)]

\* The students that have an entry for a subject, and the sum of their
\* scores for it.
Having(sd, subject) == {n \in DOMAIN sd : subject \in DOMAIN sd[n]}

RECURSIVE SumScores(_, _, _)
SumScores(sd, members, subject) ==
    IF members = {} THEN 0
    ELSE LET n == CHOOSE x \in members : TRUE
         IN  sd[n][subject] + SumScores(sd, members \ {n}, subject)

\* v is a multiple of 0.01 nearest to total / count.
NearestHundredth(v, total, count) ==
    LET d == v * count - total
    IN  /\ v % (Scale \div 100) = 0
        /\ 2 * d <= (Scale \div 100) * count
        /\ -2 * d <= (Scale \div 100) * count

\* The class average of a subject as the claims describe it: N/A exactly
\* when nobody has the subject, otherwise the mean over those who have it,
\* to two decimals.
IsClassAverage(r, sd, members, subject) ==
    /\ r.na <=> members = {}
    /\ members # {} =>
         NearestHundredth(r.v, SumScores(sd, members, subject), Cardinality(members))

\* C1: every score stored for every (student, subject) lies in [0, 100], in
\* every state reachable after load_data from any backing file and any
\* sequence of add/delete operations.
C1_ScoresInRange ==
    \A n \in DOMAIN student_data : \A s \in DOMAIN student_data[n] :
        0 <= student_data[n][s] /\ student_data[n][s] <= 100 * Scale

\* C2: every failing operation (add_student on a present name, add_grade on
\* an absent student, with a non-numeric score or with a score outside
\* [0, 100], delete_student on an absent name, delete_grade on an absent
\* student or subject) reports an error and leaves the Store as it was.
C2_FailedOperationLeavesStore ==
    LET sd == student_data
        Fails(r) == r.sd = sd /\ r.out.msgs # {} /\ r.out.msgs \subseteq ErrorMsgs
    IN  /\ \A name \in Names :
            /\ name \in DOMAIN sd => Fails(add_student(sd, name))
            /\ name \notin DOMAIN sd => Fails(delete_student(sd, name))
        /\ \A name \in Names, subject \in Subjects :
            /\ \A raw \in RawGrades :
                 LET g == GradeOf[raw]
                 IN  (\/ name \notin DOMAIN sd
                      \/ g.tag # "num"
                      \/ g.v < 0
                      \/ g.v > 100 * Scale)
                       => LET r == add_grade(sd, name, subject, raw) IN Fails(r)
            /\ (name \notin DOMAIN sd \/ subject \notin DOMAIN sd[name])
                   => Fails(delete_grade(sd, name, subject))

C2_Witness ==
    /\ Printed("Error: Grade must be between 0 and 100.")
    /\ HasGrades(student_data)
    /\ Cardinality(DOMAIN student_data) = 2

\* C3: add_grade(name, subject, s) on an existing student with 0 <= s <= 100
\* sets that subject to s; the number of the student's subjects is unchanged
\* when the subject was present and grows by one when it was absent; no other
\* subject of the student and no other student changes.
C3_AddGradeUpserts ==
    LET sd == student_data
    IN  \A name \in DOMAIN sd, subject \in Subjects, raw \in RawGrades :
          LET g == GradeOf[raw]
              r == add_grade(sd, name, subject, raw).sd
          IN  (g.tag = "num" /\ 0 <= g.v /\ g.v <= 100 * Scale) =>
                /\ DOMAIN r = DOMAIN sd
                /\ subject \in DOMAIN r[name]
                /\ r[name][subject] = g.v
                /\ Cardinality(DOMAIN r[name]) =
                     Cardinality(DOMAIN sd[name])
                       + (IF subject \in DOMAIN sd[name] THEN 0 ELSE 1)
                /\ \A s \in DOMAIN r[name] \ {subject} :
                     s \in DOMAIN sd[name] /\ r[name][s] = sd[name][s]
                /\ \A n \in DOMAIN sd \ {name} : r[n] = sd[n]

C3_Witness ==
    /\ Printed("Added grade for {name} in {subject}: {grade}")
    /\ student_data[out.name][out.subject] = out.grade
    /\ out.grade = 33 * Scale + 333 * (Scale \div 1000)
    /\ Cardinality(DOMAIN student_data[out.name]) = 2
    /\ \E n \in DOMAIN student_data \ {out.name} : DOMAIN student_data[n] # {}

\* C4: load_data on a missing or a corrupt/unparsable backing file yields an
\* empty Store and never raises: the main menu prompt is reached.
C4_LoadNeverAborts ==
    (pc # "start" /\ choice = "" /\ file.kind \in {"absent", "malformed", "undecodable"})
        => (pc = "main" /\ student_data = EmptyDict)

\* C5: the backing file is written, and the process ends, only by choice 7
\* of the main menu, which saves the Store and then exits; every other
\* selection at either prompt, valid or not, leaves the file alone and
\* returns to a prompt.
C5_OnlyExitSavesAndEnds ==
    [][ LET exits == pc = "main" /\ choice' = "7"
        IN  /\ (file' # file \/ pc' = "exited"
                  \/ "Data saved successfully to {FILE_NAME}." \in out'.msgs) => exits
            /\ exits => /\ file' = JsonFile(json_dump(student_data))
                        /\ pc' = "exited"
                        /\ student_data' = student_data
            /\ (Running /\ ~exits) => (pc' \in {"main", "delete"} /\ file' = file)
      ]_vars

C5_Witness ==
    /\ pc = "exited"
    /\ choice = "7"
    /\ Printed("Data saved successfully to {FILE_NAME}.")
    /\ file.kind = "json"
    /\ DOMAIN file.doc = DOMAIN student_data
    /\ HasGrades(student_data)

\* C6 (as claimed): view_student_report on any student present in the
\* Store, one with zero grades included, outputs the student's (subject,
\* score) pairs and the average of calculate_average_grade, numeric or "N/A";
\* only an absent student yields the not-found error.
C6_ReportAlwaysShowsAverage ==
    \A name \in Names :
        LET r == view_student_report(student_data, name)
        IN  /\ name \in DOMAIN student_data =>
                /\ "  Overall Average: {average}" \in r.msgs
                /\ r.average = calculate_average_grade(student_data, name)
                /\ r.pairs = {<<s, student_data[name][s]>> : s \in DOMAIN student_data[name]}
            /\ "Error: {name} not found." \in r.msgs <=> name \notin DOMAIN student_data

\* C6 (amended): view_student_report on a present student with at least one
\* grade outputs the student's (subject, score) pairs and the numeric average
\* of calculate_average_grade; on a present student with zero grades it
\* prints the report header and "No grades recorded yet." and no average;
\* only an absent student yields the not-found error.
C6_ReportShowsAverageWhenGraded ==
    \A name \in Names :
        LET sd == student_data
            r  == view_student_report(sd, name)
        IN  /\ (name \in DOMAIN sd /\ DOMAIN sd[name] # {}) =>
                /\ r.msgs = {"--- Report for {name} ---", "  {subject}: {grade}",
                             "  Overall Average: {average}"}
                /\ r.name = name
                /\ r.pairs = {<<s, sd[name][s]>> : s \in DOMAIN sd[name]}
                /\ r.average = calculate_average_grade(sd, name)
                /\ ~r.average.na
                /\ NearestHundredth(r.average.v,
                                    SumValues(sd[name], DOMAIN sd[name]),
                                    Cardinality(DOMAIN sd[name]))
            /\ (name \in DOMAIN sd /\ DOMAIN sd[name] = {}) =>
                /\ r.msgs = {"--- Report for {name} ---", "No grades recorded yet."}
                /\ r.name = name
                /\ r.pairs = {}
            /\ "Error: {name} not found." \in r.msgs <=> name \notin DOMAIN sd

C6_Witness ==
    /\ Printed("No grades recorded yet.")
    /\ ~Printed("  Overall Average: {average}")
    /\ out.name \in DOMAIN student_data
    /\ student_data[out.name] = EmptyDict
    /\ HasGrades(student_data)

\* C7: delete_grade(name, subject) on an existing student that has the
\* subject removes exactly that entry: the student stays (also when it was
\* the last grade), every other subject keeps its score and every other
\* student is unchanged.
C7_DeleteGradeRemovesOneEntry ==
    LET sd == student_data
    IN  \A name \in DOMAIN sd : \A subject \in DOMAIN sd[name] :
          LET r == delete_grade(sd, name, subject).sd
          IN  /\ DOMAIN r = DOMAIN sd
              /\ DOMAIN r[name] = DOMAIN sd[name] \ {subject}
              /\ \A s \in DOMAIN r[name] : r[name][s] = sd[name][s]
              /\ \A n \in DOMAIN sd \ {name} : r[n] = sd[n]

C7_Witness ==
    /\ Printed("Successfully deleted grade for {name} in {subject}.")
    /\ out.name \in DOMAIN student_data
    /\ student_data[out.name] = EmptyDict
    /\ \E n \in DOMAIN student_data : Cardinality(DOMAIN student_data[n]) = 2

\* C8: delete_student(name) on an existing student removes the student with
\* all of its grades and changes no other student; while the name is absent
\* view_student_report reports not-found, calculate_average_grade returns
\* "N/A", the class averages are those of the remaining students, and
\* add_student(name) creates the student with no grades.
C8_DeleteStudentRemovesAll ==
    LET sd == student_data
        Gone(r, name) ==
            /\ name \notin DOMAIN r
            /\ view_student_report(r, name).msgs = {"Error: {name} not found."}
            /\ calculate_average_grade(r, name) = NA
            /\ add_student(r, name).sd[name] = EmptyDict
    IN  /\ \A name \in DOMAIN sd :
            LET r == delete_student(sd, name).sd
            IN  /\ DOMAIN r = DOMAIN sd \ {name}
                /\ \A n \in DOMAIN r : r[n] = sd[n]
                /\ Gone(r, name)
                /\ \A subject \in Subjects :
                     IsClassAverage(calculate_class_subject_average(r, subject),
                                    sd, Having(sd, subject) \ {name}, subject)
        /\ \A name \in Names \ DOMAIN sd : Gone(sd, name)

C8_Witness ==
    /\ Printed("Successfully deleted student: {name}.")
    /\ out.name \notin DOMAIN student_data
    /\ HasGrades(student_data)

\* C9: saving any reachable Store and loading the file into a fresh, empty
\* Store gives a Store equal to the original: the same students, the same
\* subjects per student and the same scores.
C9_SaveLoadRoundTrip ==
    LET r == load_data(EmptyDict, save_data(student_data))
    IN  /\ r.raised = ""
        /\ r.out = Say("Data loaded successfully from {FILE_NAME}.")
        /\ DOMAIN r.sd = DOMAIN student_data
        /\ \A n \in DOMAIN student_data :
             /\ DOMAIN r.sd[n] = DOMAIN student_data[n]
             /\ \A s \in DOMAIN student_data[n] : r.sd[n][s] = student_data[n][s]

C9_Witness ==
    /\ pc = "exited"
    /\ file = save_data(student_data)
    /\ \E n \in DOMAIN student_data : \E s \in DOMAIN student_data[n] :
         student_data[n][s] % Scale # 0
    /\ load_data(EmptyDict, file).sd = student_data

\* C10 (as claimed): calculate_class_subject_average(subject) returns "N/A"
\* exactly when no student has the subject and otherwise the mean of the
\* scores of exactly the students that have it.
C10_ClassAverageIsExactMean ==
    \A subject \in Subjects :
        LET r == calculate_class_subject_average(student_data, subject)
            members == Having(student_data, subject)
        IN  /\ r.na <=> members = {}
            /\ members # {} =>
                 r.v * Cardinality(members) = SumScores(student_data, members, subject)

\* C10 (amended): calculate_class_subject_average(subject) returns "N/A"
\* exactly when no student has the subject and otherwise the mean, rounded
\* to two decimals, of the scores of exactly the students that have it;
\* the call (main menu choice 4) leaves the Store unchanged and prints that
\* value.
C10_ClassAverageIsRoundedMean ==
    [][ /\ \A subject \in Subjects :
             IsClassAverage(calculate_class_subject_average(student_data', subject),
                            student_data', Having(student_data', subject), subject)
        /\ (pc = "main" /\ choice' = "4") =>
             /\ student_data' = student_data
             /\ IF Having(student_data, out'.subject) = {}
                THEN out'.msgs = {"No grades found for subject: {subject}"}
                ELSE /\ out'.msgs = {"Class average for {subject}: {average}"}
                     /\ IsClassAverage(out'.average, student_data,
                                       Having(student_data, out'.subject), out'.subject)
      ]_vars

C10_Witness ==
    /\ Printed("Class average for {subject}: {average}")
    /\ ~out.average.na
    /\ Cardinality(Having(student_data, out.subject)) = 1
    /\ Cardinality(DOMAIN student_data) = 2
    /\ out.average.v # student_data[CHOOSE n \in Having(student_data, out.subject) : TRUE][out.subject]
=============================================================================
